---- MODULE Spec2Model ----
(***************************************************************************)
(* Model of package xerror (go-xerror).  The repository carries two        *)
(* revisions of the package side by side:                                  *)
(*   v1  src/xerror/error.go      errors hold a list of messages           *)
(*       (New, Wrap, WrapWith, Copy, WithMessages, WithDebug)              *)
(*   v2  src/unnamed/part_004     errors hold a rendered message and the   *)
(*       chain of format strings (New, Wrap, Clone, safeSprintf)           *)
(* A behaviour fixes one revision in its first state (rev).                *)
(*                                                                         *)
(* Strings are sequences of one-character tokens.  Go slices are modelled  *)
(* as slice headers [arr, len] over a heap of backing arrays, so that      *)
(* append writes in place when the capacity allows it, as in Go.           *)
(***************************************************************************)
EXTENDS Integers, Sequences, FiniteSets, TLC

VARIABLES rev, heap, errs, origin, captures, last, snap, writes, thr

vars == <<rev, heap, errs, origin, captures, last, snap, writes, thr>>

(***************************************************************************)
(* Bounds of the model.                                                    *)
(***************************************************************************)
MaxErrs == 2      \* error values created in one behaviour
CapBuf == 3       \* capacity of the caller's reusable argument buffers
MaxTplLen == 4    \* length of the format strings of SpecFormat
MaxArgs == 2      \* length of the literal argument lists of SpecFormat
MaxWrites == 1    \* writes of the caller into slices the accessors returned
NThreads == 2     \* goroutines that share one error

(***************************************************************************)
(* Strings.                                                                *)
(***************************************************************************)
Sep == <<":", " ">>

\* debug values: the i-th cell of the caller's buffer holds ValName[i]
ValName == <<"a", "b", "c", "d", "e">>
Vals == {ValName[i] : i \in 1..Len(ValName)}

\* messages: the i-th cell of the caller's string buffer holds MsgName[i]
MsgName == << <<"m", "1">>, <<"m", "2">>, <<"m", "3">>, <<"m", "4">>, <<"m", "5">> >>
LitMsg == <<"w">>

RECURSIVE CountFrom(_, _, _)
CountFrom(s, sub, i) ==
    IF i + Len(sub) - 1 > Len(s) THEN 0
    ELSE IF SubSeq(s, i, i + Len(sub) - 1) = sub
         THEN 1 + CountFrom(s, sub, i + Len(sub))
         ELSE CountFrom(s, sub, i + 1)

\* strings.Count: the number of non-overlapping instances of sub in s
strings_Count(s, sub) == CountFrom(s, sub, 1)

RECURSIVE strings_Join(_, _)
strings_Join(a, sep) ==
    IF Len(a) = 0 THEN <<>>
    ELSE IF Len(a) = 1 THEN a[1]
    ELSE a[1] \o sep \o strings_Join(Tail(a), sep)

(***************************************************************************)
(* fmt.Sprintf on string operands, for formats made of plain characters,   *)
(* "%%", verbs and a trailing "%".  The error markers of package fmt are   *)
(* single tokens: they never equal a character of a format string.         *)
(***************************************************************************)
NoVerb == "%!(NOVERB)"
Missing == "(MISSING)"
ExtraOpen == "%!(EXTRA "
BadOpen == "%!"

RECURSIVE extraArgs(_, _)
extraArgs(a, k) ==
    IF k > Len(a) THEN <<")">>
    ELSE <<"string=", a[k]>> \o (IF k < Len(a) THEN <<", ">> ELSE <<>>) \o extraArgs(a, k + 1)

RECURSIVE doPrintf(_, _, _, _)
doPrintf(format, i, a, argNum) ==
    IF i > Len(format)
    THEN IF argNum <= Len(a) THEN <<ExtraOpen>> \o extraArgs(a, argNum) ELSE <<>>
    ELSE IF format[i] # "%"
    THEN <<format[i]>> \o doPrintf(format, i + 1, a, argNum)
    ELSE IF i = Len(format)
    THEN <<NoVerb>> \o doPrintf(format, i + 1, a, argNum)
    ELSE LET c == format[i + 1] IN
         IF c = "%" THEN <<"%">> \o doPrintf(format, i + 2, a, argNum)
         ELSE IF argNum > Len(a)
         THEN <<BadOpen, c, Missing>> \o doPrintf(format, i + 2, a, argNum)
         ELSE (IF c = "v" THEN <<a[argNum]>>
               ELSE <<BadOpen, c, "(string=", a[argNum], ")">>)
              \o doPrintf(format, i + 2, a, argNum + 1)

fmt_Sprintf(format, a) == doPrintf(format, 1, a, 1)

(***************************************************************************)
(* regexp.Regexp.MatchString for patterns made of a literal with optional  *)
(* ^ and $ anchors: [lit, bol, eol].  The match is a search anywhere in s. *)
(***************************************************************************)
RECURSIVE matchFrom(_, _, _)
matchFrom(p, s, i) ==
    IF i + Len(p.lit) - 1 > Len(s) THEN FALSE
    ELSE IF /\ SubSeq(s, i, i + Len(p.lit) - 1) = p.lit
            /\ (p.eol => i + Len(p.lit) - 1 = Len(s))
         THEN TRUE
         ELSE IF p.bol THEN FALSE ELSE matchFrom(p, s, i + 1)

MatchString(p, s) == matchFrom(p, s, 1)

(***************************************************************************)
(* Go slices: a header [arr, len] into heap; arr = 0 is the nil slice.     *)
(* heap[1] is the zero-size base every zero-capacity allocation points to, *)
(* heap[2] the caller's []interface{} buffer, heap[3] the caller's         *)
(* []string buffer.                                                        *)
(***************************************************************************)
NilSlice == [arr |-> 0, len |-> 0]
EmptySlice == [arr |-> 1, len |-> 0]
DbgBuf == EmptySlice.arr + 1
StrBuf == DbgBuf + 1
ZeroVal == "nil"   \* the nil interface{} value
ZeroStr == <<>>    \* the empty string

Read(h, s) == IF s.arr = 0 THEN <<>> ELSE SubSeq(h[s.arr], 1, s.len)
Cap(h, s) == IF s.arr = 0 THEN 0 ELSE Len(h[s.arr])

\* a composite literal or make+append of exactly the elements xs
Alloc(h, xs) ==
    IF Len(xs) = 0 THEN [h |-> h, s |-> EmptySlice]
    ELSE [h |-> Append(h, xs), s |-> [arr |-> Len(h) + 1, len |-> Len(xs)]]

\* runtime.growslice for small slices of 16-byte elements
GrowCap(old, needed) == IF needed > 2 * old THEN needed ELSE 2 * old

\* the built-in append(s, xs...); z is the zero value of the element type
GoAppend(h, s, xs, z) ==
    IF Len(xs) = 0 THEN [h |-> h, s |-> s]
    ELSE IF s.len + Len(xs) <= Cap(h, s)
    THEN [h |-> [h EXCEPT ![s.arr] = SubSeq(@, 1, s.len) \o xs
                                      \o SubSeq(@, s.len + Len(xs) + 1, Len(@))],
          s |-> [arr |-> s.arr, len |-> s.len + Len(xs)]]
    ELSE LET n == s.len + Len(xs)
             c == GrowCap(Cap(h, s), n)
         IN [h |-> Append(h, Read(h, s) \o xs \o [k \in 1..(c - n) |-> z]),
             s |-> [arr |-> Len(h) + 1, len |-> n]]

(***************************************************************************)
(* Error values handed to the package: nil, a plain Go error with a text,  *)
(* or a *xerror (index into errs).                                         *)
(***************************************************************************)
NilErr == [kind |-> "nil"]
Native(s) == [kind |-> "native", text |-> s]
XErr(i) == [kind |-> "xerr", id |-> i]

\* result of a boolean function that may panic
Ret(b) == [panic |-> FALSE, val |-> b]
PanicRet == [panic |-> TRUE, val |-> FALSE]

\* newStack: the frames of the k-th capture of a behaviour
newStack(k) == << [site |-> k, depth |-> 1], [site |-> k, depth |-> 2] >>

(***************************************************************************)
(* Revision v2 (src/unnamed/part_004).                                     *)
(* xerror = [msg, fmts, dbg, stack].  The operators take the heap and      *)
(* return the heap after the call, the new value e, the number of stacks   *)
(* captured and whether the call panicked.                                 *)
(***************************************************************************)
\* nilToEmpty handing the nil slice on
nilToEmpty_nil(v) == v

nilToEmpty(v) == IF v = NilSlice THEN EmptySlice ELSE v

\* the count with an escaped pair taken for one character
placeholders_single(format) ==
    strings_Count(format, <<"%">>) - strings_Count(format, <<"%", "%">>)

\* the count n of safeSprintf
placeholders(format) ==
    strings_Count(format, <<"%">>) - strings_Count(format, <<"%", "%">>) * 2

\* the arguments safeSprintf passes on to fmt.Sprintf
passedArgs(format, v) ==
    IF Len(v) > placeholders(format) THEN SubSeq(v, 1, placeholders(format)) ELSE v

\* v[:n] panics when n is negative
sliceInRange(format, v) == Len(v) > placeholders(format) => placeholders(format) >= 0

safeSprintf(format, v) == fmt_Sprintf(format, passedArgs(format, v))

Panicked(h) == [h |-> h, e |-> [msg |-> <<>>, fmts |-> NilSlice, dbg |-> NilSlice, stack |-> NilSlice],
                cap |-> 0, panic |-> TRUE]

NewV2(h, format, v0, k) ==
    LET v == nilToEmpty(v0)
        f == Alloc(h, <<format>>)
        st == Alloc(f.h, newStack(k))
    IN IF ~sliceInRange(format, Read(h, v)) THEN Panicked(h)
       ELSE [h |-> st.h,
             e |-> [msg |-> safeSprintf(format, Read(h, v)), fmts |-> f.s, dbg |-> v, stack |-> st.s],
             cap |-> 1, panic |-> FALSE]

CloneV2(h, e) ==
    LET f == Alloc(h, Read(h, e.fmts))
        d == Alloc(f.h, Read(h, e.dbg))
        st == Alloc(d.h, Read(h, e.stack))
    IN [h |-> st.h,
        e |-> [msg |-> e.msg, fmts |-> f.s, dbg |-> d.s, stack |-> st.s],
        cap |-> 0, panic |-> FALSE]

\* cloneOrNew capturing a stack of its own for the copy
cloneOrNew_recapture(h, err, k) ==
    IF err.kind = "xerr"
    THEN LET c == CloneV2(h, err.e)
             st == Alloc(c.h, newStack(k))
         IN [h |-> st.h, e |-> [c.e EXCEPT !.stack = st.s], cap |-> 1, panic |-> FALSE]
    ELSE IF err.kind = "nil" THEN Panicked(h)
    ELSE NewV2(h, err.text, NilSlice, k)

\* cloneOrNew taking a nil error for an error without text
cloneOrNew_nilEmpty(h, err, k) ==
    IF err.kind = "xerr" THEN CloneV2(h, err.e)
    ELSE IF err.kind = "nil" THEN NewV2(h, <<>>, NilSlice, k)
    ELSE NewV2(h, err.text, NilSlice, k)

\* err is NilErr, Native(s) or the *xerror value itself
cloneOrNew(h, err, k) ==
    IF err.kind = "xerr" THEN CloneV2(h, err.e)
    ELSE IF err.kind = "nil" THEN Panicked(h)
    ELSE NewV2(h, err.text, NilSlice, k)

\* WrapV2 with the new layer added behind the wrapped error's layers
WrapV2_appended(h, err, format, v0, k) ==
    LET v == nilToEmpty(v0)
        x == cloneOrNew(h, err, k)
        f == GoAppend(x.h, x.e.fmts, <<format>>, ZeroStr)
        d == GoAppend(f.h, x.e.dbg, Read(x.h, v), ZeroVal)
    IN IF x.panic \/ ~sliceInRange(format, Read(h, v)) THEN Panicked(h)
       ELSE [h |-> d.h,
             e |-> [msg |-> safeSprintf(format, Read(x.h, v)) \o Sep \o x.e.msg,
                    fmts |-> f.s, dbg |-> d.s, stack |-> x.e.stack],
             cap |-> x.cap, panic |-> FALSE]

WrapV2(h, err, format, v0, k) ==
    LET v == nilToEmpty(v0)
        x == cloneOrNew(h, err, k)
        lit == Alloc(x.h, <<format>>)
        f == GoAppend(lit.h, lit.s, Read(x.h, x.e.fmts), ZeroStr)
        d == GoAppend(f.h, v, Read(x.h, x.e.dbg), ZeroVal)
    IN IF x.panic \/ ~sliceInRange(format, Read(h, v)) THEN Panicked(h)
       ELSE [h |-> d.h,
             e |-> [msg |-> safeSprintf(format, Read(x.h, v)) \o Sep \o x.e.msg,
                    fmts |-> f.s, dbg |-> d.s, stack |-> x.e.stack],
             cap |-> x.cap, panic |-> FALSE]

ErrorV2(h, e) == e.msg

\* IsV2 deciding on the rendered message
IsV2_rendered(h, e, format) ==
    IF Len(Read(h, e.fmts)) = 0 THEN PanicRet ELSE Ret(e.msg = format)

IsV2(h, e, format) ==
    IF Len(Read(h, e.fmts)) = 0 THEN PanicRet ELSE Ret(Read(h, e.fmts)[1] = format)

\* IsPatternV2 matching the rendered message
IsPatternV2_rendered(h, e, pattern) ==
    IF Len(Read(h, e.fmts)) = 0 THEN PanicRet ELSE Ret(MatchString(pattern, e.msg))

IsPatternV2(h, e, pattern) ==
    IF Len(Read(h, e.fmts)) = 0 THEN PanicRet ELSE Ret(MatchString(pattern, Read(h, e.fmts)[1]))

RECURSIVE containsLoop(_, _, _)
containsLoop(ms, x, i) ==
    IF i > Len(ms) THEN FALSE
    ELSE IF ms[i] = x THEN TRUE ELSE containsLoop(ms, x, i + 1)

RECURSIVE containsPatternLoop(_, _, _)
containsPatternLoop(ms, p, i) ==
    IF i > Len(ms) THEN FALSE
    ELSE IF MatchString(p, ms[i]) THEN TRUE ELSE containsPatternLoop(ms, p, i + 1)

\* ContainsV2 looking at the outermost format only
ContainsV2_outermost(h, e, format) ==
    Ret(Len(Read(h, e.fmts)) > 0 /\ Read(h, e.fmts)[1] = format)

ContainsV2(h, e, format) == Ret(containsLoop(Read(h, e.fmts), format, 1))

ContainsPatternV2(h, e, pattern) == Ret(containsPatternLoop(Read(h, e.fmts), pattern, 1))

DebugV2(h, e) == Read(h, e.dbg)

StackV2(h, e) == Read(h, e.stack)

(***************************************************************************)
(* Revision v1 (src/xerror/error.go).  xerror = [messages, debug, stack].  *)
(***************************************************************************)
PanickedV1(h) == [h |-> h, e |-> [messages |-> NilSlice, debug |-> NilSlice, stack |-> NilSlice],
                  cap |-> 0, panic |-> TRUE]

\* messages is the slice of the variadic parameter
NewV1(h, messages, k) ==
    LET st == Alloc(h, newStack(k))
    IN [h |-> st.h,
        e |-> [messages |-> messages, debug |-> EmptySlice, stack |-> st.s],
        cap |-> 1, panic |-> FALSE]

\* Copy handing on the slices of e instead of copying their elements
CopyV1_shallow(h, e) ==
    [h |-> h,
     e |-> [messages |-> e.messages, debug |-> e.debug, stack |-> e.stack],
     cap |-> 0, panic |-> FALSE]

CopyV1(h, e) ==
    LET m == Alloc(h, Read(h, e.messages))
        d == Alloc(m.h, Read(h, e.debug))
        st == Alloc(d.h, Read(h, e.stack))
    IN [h |-> st.h,
        e |-> [messages |-> m.s, debug |-> d.s, stack |-> st.s],
        cap |-> 0, panic |-> FALSE]

\* Wrap returning a copy of a given *xerror
WrapV1_copies(h, err, k) ==
    IF err.kind = "nil"
    THEN [h |-> h, e |-> PanickedV1(h).e, cap |-> 0, panic |-> FALSE, nil |-> TRUE, same |-> FALSE]
    ELSE IF err.kind = "xerr"
    THEN LET c == CopyV1(h, err.e)
         IN [h |-> c.h, e |-> c.e, cap |-> 0, panic |-> FALSE, nil |-> FALSE, same |-> FALSE]
    ELSE LET lit == Alloc(h, <<err.text>>)
             n == NewV1(lit.h, lit.s, k)
         IN [h |-> n.h, e |-> n.e, cap |-> 1, panic |-> FALSE, nil |-> FALSE, same |-> FALSE]

\* Wrap without the nil check: a nil error is wrapped as an error without text
WrapV1_wrapsNil(h, err, k) ==
    IF err.kind = "xerr"
    THEN [h |-> h, e |-> err.e, cap |-> 0, panic |-> FALSE, nil |-> FALSE, same |-> TRUE]
    ELSE LET lit == Alloc(h, <<IF err.kind = "nil" THEN <<>> ELSE err.text>>)
             n == NewV1(lit.h, lit.s, k)
         IN [h |-> n.h, e |-> n.e, cap |-> 1, panic |-> FALSE, nil |-> FALSE, same |-> FALSE]

\* Wrap returns nil, the given *xerror itself (same |-> TRUE) or a new value
WrapV1(h, err, k) ==
    IF err.kind = "nil"
    THEN [h |-> h, e |-> PanickedV1(h).e, cap |-> 0, panic |-> FALSE, nil |-> TRUE, same |-> FALSE]
    ELSE IF err.kind = "xerr"
    THEN [h |-> h, e |-> err.e, cap |-> 0, panic |-> FALSE, nil |-> FALSE, same |-> TRUE]
    ELSE LET lit == Alloc(h, <<err.text>>)
             n == NewV1(lit.h, lit.s, k)
         IN [h |-> n.h, e |-> n.e, cap |-> 1, panic |-> FALSE, nil |-> FALSE, same |-> FALSE]

WrapWith(h, err, message, debug, k) ==
    LET lit == Alloc(h, <<err.text>>)
        n == IF err.kind = "xerr" THEN CopyV1(h, err.e) ELSE NewV1(lit.h, lit.s, k)
        ml == Alloc(n.h, <<message>>)
        m == GoAppend(ml.h, ml.s, Read(n.h, n.e.messages), ZeroStr)
        d == IF debug.len > 0
             THEN GoAppend(m.h, debug, Read(n.h, n.e.debug), ZeroVal)
             ELSE [h |-> m.h, s |-> n.e.debug]
    IN IF err.kind = "nil" THEN PanickedV1(h)
       ELSE [h |-> d.h,
             e |-> [messages |-> m.s, debug |-> d.s, stack |-> n.e.stack],
             cap |-> n.cap, panic |-> FALSE]

\* WithMessages adding the messages behind those of the error
WithMessages_appended(h, e, message) ==
    LET n == CopyV1(h, e)
        m == GoAppend(n.h, n.e.messages, Read(n.h, message), ZeroStr)
    IN [h |-> m.h,
        e |-> [n.e EXCEPT !.messages = m.s],
        cap |-> 0, panic |-> FALSE]

WithMessages(h, e, message) ==
    LET n == CopyV1(h, e)
        m == GoAppend(n.h, message, Read(n.h, n.e.messages), ZeroStr)
    IN [h |-> m.h,
        e |-> [n.e EXCEPT !.messages = m.s],
        cap |-> 0, panic |-> FALSE]

WithDebug(h, e, debug) ==
    LET n == CopyV1(h, e)
        d == GoAppend(n.h, debug, Read(n.h, n.e.debug), ZeroVal)
    IN [h |-> d.h,
        e |-> [n.e EXCEPT !.debug = d.s],
        cap |-> 0, panic |-> FALSE]

ErrorV1(h, e) == strings_Join(Read(h, e.messages), Sep)

IsV1(h, e, message) ==
    IF Len(Read(h, e.messages)) = 0 THEN PanicRet ELSE Ret(Read(h, e.messages)[1] = message)

IsPatternV1(h, e, pattern) ==
    IF Len(Read(h, e.messages)) = 0 THEN PanicRet
    ELSE Ret(MatchString(pattern, Read(h, e.messages)[1]))

ContainsV1(h, e, message) == Ret(containsLoop(Read(h, e.messages), message, 1))

ContainsPatternV1(h, e, pattern) == Ret(containsPatternLoop(Read(h, e.messages), pattern, 1))

MessagesV1(h, e) == Read(h, e.messages)

DebugV1(h, e) == Read(h, e.debug)

StackV1(h, e) == Read(h, e.stack)

(***************************************************************************)
(* What a caller observes on an error value, in either revision.           *)
(***************************************************************************)
ErrorText(h, e) == IF rev = "v1" THEN ErrorV1(h, e) ELSE ErrorV2(h, e)
Chain(h, e) == IF rev = "v1" THEN MessagesV1(h, e) ELSE Read(h, e.fmts)
DebugSlice(e) == IF rev = "v1" THEN e.debug ELSE e.dbg
Debug(h, e) == Read(h, DebugSlice(e))
Stack(h, e) == IF rev = "v1" THEN StackV1(h, e) ELSE StackV2(h, e)

Obs(h, e) == [text |-> ErrorText(h, e), chain |-> Chain(h, e), debug |-> Debug(h, e),
              debugNil |-> DebugSlice(e).arr = 0, stack |-> Stack(h, e)]

NoObs == [text |-> <<>>, chain |-> <<>>, debug |-> <<>>, debugNil |-> TRUE, stack |-> <<>>]

Is_m(h, e, t) == IF rev = "v1" THEN IsV1(h, e, t) ELSE IsV2(h, e, t)
IsPattern_m(h, e, p) == IF rev = "v1" THEN IsPatternV1(h, e, p) ELSE IsPatternV2(h, e, p)
Contains_m(h, e, t) == IF rev = "v1" THEN ContainsV1(h, e, t) ELSE ContainsV2(h, e, t)
ContainsPattern_m(h, e, p) ==
    IF rev = "v1" THEN ContainsPatternV1(h, e, p) ELSE ContainsPatternV2(h, e, p)

(***************************************************************************)
(* The package-level functions (the same code in both revisions).  err is  *)
(* NilErr, Native(s) or [kind |-> "xerr", e |-> the value]; calling Error  *)
(* on a nil error panics.                                                  *)
(***************************************************************************)
\* Is without the type assertion: every error is compared by its text
Is_text(h, err, message) ==
    IF err.kind = "nil" THEN PanicRet
    ELSE IF err.kind = "xerr" THEN Ret(ErrorText(h, err.e) = message)
    ELSE Ret(err.text = message)

Is(h, err, message) ==
    IF err.kind = "xerr" THEN Is_m(h, err.e, message)
    ELSE IF err.kind = "nil" THEN PanicRet
    ELSE Ret(err.text = message)

IsPattern(h, err, pattern) ==
    IF err.kind = "xerr" THEN IsPattern_m(h, err.e, pattern)
    ELSE IF err.kind = "nil" THEN PanicRet
    ELSE Ret(MatchString(pattern, err.text))

Contains(h, err, message) ==
    IF err.kind = "xerr" THEN Contains_m(h, err.e, message)
    ELSE IF err.kind = "nil" THEN PanicRet
    ELSE Ret(err.text = message)

ContainsPattern(h, err, pattern) ==
    IF err.kind = "xerr" THEN ContainsPattern_m(h, err.e, pattern)
    ELSE IF err.kind = "nil" THEN PanicRet
    ELSE Ret(MatchString(pattern, err.text))

(***************************************************************************)
(* The callers.  A variadic parameter receives no argument (a nil slice),  *)
(* a list of arguments (a fresh slice) or a prefix of a buffer the caller  *)
(* keeps and reuses, spread with "...".                                    *)
(***************************************************************************)
NoArgs == [kind |-> "none"]
LitArgs(xs) == [kind |-> "lit", vals |-> xs]
BufArgs(n) == [kind |-> "buf", n |-> n]

MkArgs(h, c, buf) ==
    IF c.kind = "none" THEN [h |-> h, s |-> NilSlice]
    ELSE IF c.kind = "lit" THEN Alloc(h, c.vals)
    ELSE [h |-> h, s |-> [arr |-> buf, len |-> c.n]]

\* the prefixes of a buffer a caller spreads: the empty one, one element,
\* and all but the last element (room is left for one append in place)
PrefixLens == {0, 1, CapBuf - 1}
ArgChoices == {NoArgs} \cup {BufArgs(n) : n \in PrefixLens}
MsgChoices == {NoArgs} \cup {BufArgs(n) : n \in PrefixLens}

Templates == { <<"f">>, <<"g", "%", "v">> }
NativeTexts == { <<"x">>, <<"%", "v">> }

NoSrc == [kind |-> "none"]
Sources == {NilErr} \cup {Native(t) : t \in NativeTexts} \cup {XErr(i) : i \in 1..Len(errs)}

\* the error value a reference denotes
Deref(ref) == IF ref.kind = "xerr" THEN [kind |-> "xerr", id |-> ref.id, e |-> errs[ref.id]] ELSE ref

PreObs(ref) == IF ref.kind = "xerr" THEN Obs(heap, errs[ref.id]) ELSE NoObs

\* a goroutine that has not called yet
Idle == [pc |-> "idle", op |-> "none", c |-> NoArgs, n |-> <<>>, seen |-> NoObs]

Init ==
    /\ rev \in {"v1", "v2"}
    /\ heap = << <<>>, [i \in 1..CapBuf |-> ValName[i]], [i \in 1..CapBuf |-> MsgName[i]] >>
    /\ errs = <<>>
    /\ origin = <<>>
    /\ captures = 0
    /\ last = [op |-> "init", src |-> NoSrc, pre |-> NoObs, format |-> <<>>, msgs |-> <<>>,
               args |-> <<>>, res |-> 0, out |-> "ok"]
    /\ snap = <<>>
    /\ writes = 0
    /\ thr = [h0 |-> <<>>, run |-> [t \in 1..NThreads |-> Idle]]

\* what every error value at hand reports, taken before a call
Snapshot == [i \in 1..Len(errs) |-> Obs(heap, errs[i])]

CopyOps == {"Copy", "Clone"}

\* the call returned r: a new error value unless it panicked (what a panicking
\* call allocated is garbage and is dropped).  origin records, for the new
\* value, the stack of the innermost error of its chain: the stack of this
\* call (root) when the call wraps no augmented error, else that of src, the
\* error the value is a copy of (copyOf, 0 when it is none), the error it
\* was derived from (parent, 0 for a root) and the chain that error had when
\* the call was made (had).
Commit(r, op, src, format, msgs, args) ==
    /\ heap' = IF r.panic THEN heap ELSE r.h
    /\ errs' = IF r.panic THEN errs ELSE Append(errs, r.e)
    /\ origin' = IF r.panic THEN origin
                 ELSE Append(origin, IF src.kind = "xerr"
                                     THEN [stack |-> origin[src.id].stack, root |-> FALSE,
                                           copyOf |-> IF op \in CopyOps THEN src.id ELSE 0,
                                           parent |-> src.id, had |-> PreObs(src).chain]
                                     ELSE [stack |-> newStack(captures + 1), root |-> TRUE,
                                           copyOf |-> 0, parent |-> 0, had |-> <<>>])
    /\ snap' = Snapshot
    /\ UNCHANGED <<writes, thr>>
    /\ captures' = captures + r.cap
    /\ last' = [op |-> op, src |-> src, pre |-> PreObs(src), format |-> format, msgs |-> msgs,
                args |-> args, res |-> IF r.panic THEN 0 ELSE Len(errs) + 1,
                out |-> IF r.panic THEN "panic" ELSE "ok"]
    /\ UNCHANGED rev

NewV2Op(Tpls, Args) ==
    /\ rev = "v2"
    /\ Len(errs) < MaxErrs
    /\ \E format \in Tpls, c \in Args :
         LET a == MkArgs(heap, c, DbgBuf)
         IN Commit(NewV2(a.h, format, a.s, captures + 1), "New", NoSrc, format, <<>>, Read(a.h, a.s))

WrapV2Op(Srcs, Tpls, Args) ==
    /\ rev = "v2"
    /\ Len(errs) < MaxErrs
    /\ \E src \in Srcs, format \in Tpls, c \in Args :
         LET a == MkArgs(heap, c, DbgBuf)
         IN Commit(WrapV2(a.h, Deref(src), format, a.s, captures + 1), "Wrap", src, format, <<>>,
                   Read(a.h, a.s))

NewV2Act == NewV2Op(Templates, ArgChoices)

WrapV2Act == WrapV2Op(Sources, Templates, ArgChoices)

CloneV2Act ==
    /\ rev = "v2"
    /\ Len(errs) < MaxErrs
    /\ \E i \in 1..Len(errs) :
         Commit(CloneV2(heap, errs[i]), "Clone", XErr(i), <<>>, <<>>, <<>>)

NewV1Op(Msgs) ==
    /\ rev = "v1"
    /\ Len(errs) < MaxErrs
    /\ \E c \in Msgs :
         LET a == MkArgs(heap, c, StrBuf)
         IN Commit(NewV1(a.h, a.s, captures + 1), "New", NoSrc, <<>>, Read(a.h, a.s), <<>>)

NewV1Act == NewV1Op(MsgChoices)

WrapV1Act ==
    /\ rev = "v1"
    /\ Len(errs) < MaxErrs
    /\ \E src \in Sources :
         LET r == WrapV1(heap, Deref(src), captures + 1)
         IN IF r.nil \/ r.same
            THEN /\ last' = [op |-> "Wrap", src |-> src, pre |-> PreObs(src), format |-> <<>>,
                             msgs |-> <<>>, args |-> <<>>, res |-> IF r.same THEN src.id ELSE 0,
                             out |-> IF r.nil THEN "nil" ELSE "ok"]
                 /\ snap' = Snapshot
                 /\ UNCHANGED <<rev, heap, errs, origin, captures, writes, thr>>
            ELSE Commit(r, "Wrap", src, <<>>, <<>>, <<>>)

WrapWithAct ==
    /\ rev = "v1"
    /\ Len(errs) < MaxErrs
    /\ \E src \in Sources, message \in {LitMsg}, c \in ArgChoices :
         LET a == MkArgs(heap, c, DbgBuf)
         IN Commit(WrapWith(a.h, Deref(src), message, a.s, captures + 1), "WrapWith", src, <<>>,
                   <<message>>, Read(a.h, a.s))

CopyV1Act ==
    /\ rev = "v1"
    /\ Len(errs) < MaxErrs
    /\ \E i \in 1..Len(errs) :
         Commit(CopyV1(heap, errs[i]), "Copy", XErr(i), <<>>, <<>>, <<>>)

WithMessagesOp(Msgs) ==
    /\ rev = "v1"
    /\ Len(errs) < MaxErrs
    /\ \E i \in 1..Len(errs), c \in Msgs :
         LET a == MkArgs(heap, c, StrBuf)
         IN Commit(WithMessages(a.h, errs[i], a.s), "WithMessages", XErr(i), <<>>,
                   Read(a.h, a.s), <<>>)

WithMessagesAct == WithMessagesOp(MsgChoices)

WithDebugOp(Args) ==
    /\ rev = "v1"
    /\ Len(errs) < MaxErrs
    /\ \E i \in 1..Len(errs), c \in Args :
         LET a == MkArgs(heap, c, DbgBuf)
         IN Commit(WithDebug(a.h, errs[i], a.s), "WithDebug", XErr(i), <<>>, <<>>,
                   Read(a.h, a.s))

WithDebugAct == WithDebugOp(ArgChoices)

Next ==
    \/ NewV2Act
    \/ WrapV2Act
    \/ CloneV2Act
    \/ NewV1Act
    \/ WrapV1Act
    \/ WrapWithAct
    \/ CopyV1Act
    \/ WithMessagesAct
    \/ WithDebugAct

Spec == Init /\ [][Next]_vars

(***************************************************************************)
(* SpecCaller: the package calls of Spec and a caller that writes into the *)
(* slices Messages(), Debug() and Stack() returned (v2 has no accessor for *)
(* the formats): it assigns an element, or appends a value, which writes   *)
(* into the backing array when the slice has capacity left.                *)
(***************************************************************************)
Fields == IF rev = "v1" THEN {"messages", "debug", "stack"} ELSE {"dbg", "stack"}

\* the value the caller writes, and the zero value of the element type
Mark(fld) == IF fld = "stack" THEN [site |-> 0, depth |-> 0]
             ELSE IF fld = "messages" THEN <<"z">> ELSE "z"
Zero(fld) == IF fld = "stack" THEN [site |-> 0, depth |-> 0]
             ELSE IF fld = "messages" THEN ZeroStr ELSE ZeroVal

CallerDid(op, i) ==
    /\ last' = [op |-> op, src |-> XErr(i), pre |-> PreObs(XErr(i)), format |-> <<>>,
                msgs |-> <<>>, args |-> <<>>, res |-> i, out |-> "ok"]
    /\ snap' = Snapshot
    /\ writes' = writes + 1
    /\ UNCHANGED <<rev, errs, origin, captures, thr>>

\* s := e.Debug(); s[k] = "z"   (likewise Messages() and Stack())
CallerWriteAct ==
    /\ writes < MaxWrites
    /\ \E i \in 1..Len(errs), fld \in Fields :
         \E k \in 1..errs[i][fld].len :
            /\ heap' = [heap EXCEPT ![errs[i][fld].arr][k] = Mark(fld)]
            /\ CallerDid("Write", i)

\* s := append(e.Debug(), "z"): a grown slice is the caller's alone
CallerAppendAct ==
    /\ writes < MaxWrites
    /\ \E i \in 1..Len(errs), fld \in Fields :
         LET r == GoAppend(heap, errs[i][fld], <<Mark(fld)>>, Zero(fld))
         IN /\ heap' = IF r.s.arr = errs[i][fld].arr THEN r.h ELSE heap
            /\ CallerDid("Append", i)

\* buf[k] = "z": the caller writes into the slice it passed to a call
CallerBufWriteAct ==
    /\ writes < MaxWrites
    /\ Len(errs) > 0
    /\ \E buf \in {DbgBuf, StrBuf}, k \in 1..CapBuf :
         /\ heap' = [heap EXCEPT ![buf][k] = IF buf = StrBuf THEN Mark("messages") ELSE Mark("debug")]
         /\ last' = [op |-> "BufWrite", src |-> NoSrc, pre |-> NoObs, format |-> <<>>,
                     msgs |-> <<>>, args |-> <<>>, res |-> 0, out |-> "ok"]
         /\ snap' = Snapshot
         /\ writes' = writes + 1
         /\ UNCHANGED <<rev, errs, origin, captures, thr>>

\* the calls of a caller that builds an error from its buffer or from no
\* arguments, derives errors from it with one more value, and copies
CallerFirst == {NoArgs, BufArgs(CapBuf - 1)}
CallerMore == {BufArgs(1)}
CallerTpl == { <<"f">> }

CallerNewV2 == NewV2Op(CallerTpl, CallerFirst)
CallerWrapV2 == WrapV2Op({XErr(i) : i \in 1..Len(errs)}, CallerTpl, CallerMore)
CallerNewV1 == NewV1Op(CallerFirst)
CallerWithMessages == WithMessagesOp(CallerMore)
CallerWithDebug == WithDebugOp(CallerMore)

NextCaller ==
    \/ CallerNewV2
    \/ CallerWrapV2
    \/ CloneV2Act
    \/ CallerNewV1
    \/ CallerWithMessages
    \/ CallerWithDebug
    \/ CopyV1Act
    \/ CallerWriteAct
    \/ CallerAppendAct
    \/ CallerBufWriteAct

SpecCaller == Init /\ [][NextCaller]_vars

(***************************************************************************)
(* SpecQuery: a caller that builds errors and asks the package-level Is    *)
(* and Contains about a nil error, a plain error or an augmented error.    *)
(***************************************************************************)
QueryMsgs == { <<"f">>, <<"x">>, MsgName[1] }
QuerySrcs == {NilErr, Native(<<"x">>)} \cup {XErr(i) : i \in 1..Len(errs)}

Answer(r) == IF r.panic THEN "panic" ELSE IF r.val THEN "true" ELSE "false"

QueryDid(op, src, t, r) ==
    /\ last' = [op |-> op, src |-> src, pre |-> PreObs(src), format |-> t, msgs |-> <<>>,
                args |-> <<>>, res |-> 0, out |-> Answer(r)]
    /\ snap' = Snapshot
    /\ UNCHANGED <<rev, heap, errs, origin, captures, writes, thr>>

IsAct ==
    \E src \in QuerySrcs, t \in QueryMsgs :
        QueryDid("Is", src, t, Is(heap, Deref(src), t))

ContainsAct ==
    \E src \in QuerySrcs, t \in QueryMsgs :
        QueryDid("Contains", src, t, Contains(heap, Deref(src), t))

NextQuery ==
    \/ CallerNewV2
    \/ CallerWrapV2
    \/ CallerNewV1
    \/ CallerWithMessages
    \/ IsAct
    \/ ContainsAct

SpecQuery == Init /\ [][NextQuery]_vars

(***************************************************************************)
(* SpecFormat: the formatting of one layer, New(T, A...) and               *)
(* Wrap(err, T, A...) on a plain error, for every format string T over     *)
(* Alphabet up to MaxTplLen characters and every argument list A up to     *)
(* MaxArgs values.                                                         *)
(***************************************************************************)
Alphabet == {"%", "v", "f"}
FmtVals == {"a", "b"}

SeqsUpTo(S, n) == UNION {[1..k -> S] : k \in 0..n}

AllTemplates == SeqsUpTo(Alphabet, MaxTplLen)
FmtArgs == {NoArgs} \cup {LitArgs(xs) : xs \in SeqsUpTo(FmtVals, MaxArgs)}

InitFormat == Init /\ rev = "v2"

FmtNew == Len(errs) = 0 /\ NewV2Op(AllTemplates, FmtArgs)

FmtWrap == Len(errs) = 0 /\ WrapV2Op({Native(<<"x">>)}, AllTemplates, FmtArgs)

NextFormat == FmtNew \/ FmtWrap

SpecFormat == InitFormat /\ [][NextFormat]_vars

(***************************************************************************)
(* SpecThreads: one error, made by New, is handed to goroutines that each  *)
(* make one call on it.  A call that derives an error runs in two steps:   *)
(* it copies the shared error (Copy, Clone), and later it builds the new   *)
(* fields from the copy and its arguments with append; an accessor reads   *)
(* in one step.  thr.h0 is the heap when the error was handed over and     *)
(* thr.run[t] the position of goroutine t, the copy it took (n, replaced   *)
(* by its result when it is done) and what an accessor saw.                *)
(***************************************************************************)
Threads == 1..NThreads
Shared == 1

ThreadCopies == IF rev = "v1" THEN {"Copy"} ELSE {"Clone"}
ThreadDerives == IF rev = "v1" THEN {"WithMessages", "WithDebug", "WrapWith"} ELSE {"Wrap"}
ThreadReads == IF rev = "v1" THEN {"Messages"} ELSE {"Debug"}
ThreadArgs == {NoArgs, BufArgs(1)}

\* the buffer a call's variadic arguments are taken from
ArgBuf(op) == IF op = "WithMessages" THEN StrBuf ELSE DbgBuf

\* the call op of a goroutine on error e with the arguments c, in heap h
ThreadCall(h, e, op, c) ==
    LET a == MkArgs(h, c, ArgBuf(op))
        src == [kind |-> "xerr", id |-> Shared, e |-> e]
    IN IF op = "WithMessages" THEN WithMessages(a.h, e, a.s)
       ELSE IF op = "WithDebug" THEN WithDebug(a.h, e, a.s)
       ELSE IF op = "WrapWith" THEN WrapWith(a.h, src, LitMsg, a.s, captures + 1)
       ELSE IF op = "Wrap" THEN WrapV2(a.h, src, <<"f">>, a.s, captures + 1)
       ELSE IF op = "Copy" THEN CopyV1(h, e)
       ELSE CloneV2(h, e)

ThreadDid(op) ==
    /\ last' = [op |-> op, src |-> XErr(Shared), pre |-> PreObs(XErr(Shared)), format |-> <<>>,
                msgs |-> <<>>, args |-> <<>>, res |-> 0, out |-> "ok"]
    /\ snap' = Snapshot
    /\ UNCHANGED <<rev, errs, origin, captures, writes>>

SharedNewV1 == Len(errs) = 0 /\ CallerNewV1
SharedNewV2 == Len(errs) = 0 /\ CallerNewV2

\* go f(e): the error is handed to the goroutines
ShareAct ==
    /\ Len(errs) = 1
    /\ thr.h0 = <<>>
    /\ thr' = [thr EXCEPT !.h0 = heap]
    /\ UNCHANGED heap
    /\ ThreadDid("go")

\* the Copy (Clone) a deriving call starts with; for e.Copy() and e.Clone()
\* it is the whole call
ThreadCopyAct ==
    \E t \in Threads, op \in ThreadCopies \cup ThreadDerives :
      \E c \in IF op \in ThreadCopies THEN {NoArgs} ELSE ThreadArgs :
        /\ thr.h0 # <<>>
        /\ thr.run[t].pc = "idle"
        /\ LET n == ThreadCall(heap, errs[Shared], IF rev = "v1" THEN "Copy" ELSE "Clone", NoArgs)
           IN /\ heap' = n.h
              /\ thr' = [thr EXCEPT !.run[t] = [pc |-> IF op \in ThreadCopies THEN "done" ELSE "copied",
                                                op |-> op, c |-> c, n |-> <<n.e>>, seen |-> NoObs]]
        /\ ThreadDid(op)

\* the rest of a deriving call: the appends, on the copy taken earlier
ThreadAppendAct ==
    \E t \in Threads :
        /\ thr.run[t].pc = "copied"
        /\ LET r == ThreadCall(heap, thr.run[t].n[1], thr.run[t].op, thr.run[t].c)
           IN /\ heap' = r.h
              /\ thr' = [thr EXCEPT !.run[t].pc = "done", !.run[t].n = <<r.e>>]
        /\ ThreadDid(thr.run[t].op)

\* e.Messages() (v1), e.Debug() (v2)
ThreadReadAct ==
    \E t \in Threads, op \in ThreadReads :
        /\ thr.h0 # <<>>
        /\ thr.run[t].pc = "idle"
        /\ thr' = [thr EXCEPT !.run[t] = [pc |-> "done", op |-> op, c |-> NoArgs, n |-> <<>>,
                                          seen |-> Obs(heap, errs[Shared])]]
        /\ UNCHANGED heap
        /\ ThreadDid(op)

NextThreads ==
    \/ SharedNewV1
    \/ SharedNewV2
    \/ ShareAct
    \/ ThreadCopyAct
    \/ ThreadAppendAct
    \/ ThreadReadAct

SpecThreads == Init /\ [][NextThreads]_vars

(***************************************************************************)
(* Properties.                                                             *)
(***************************************************************************)
TypeOK == Len(errs) <= MaxErrs /\ Len(origin) = Len(errs)

Ids == 1..Len(errs)
O(i) == Obs(heap, errs[i])

\* the strings a caller may ask about: formats, messages, plain error texts,
\* the chain entries and the rendered texts of the errors at hand
Probes ==
    Templates \cup NativeTexts \cup {LitMsg} \cup {MsgName[k] : k \in 1..CapBuf}
    \cup {O(i).text : i \in Ids}
    \cup UNION {{O(i).chain[k] : k \in 1..Len(O(i).chain)} : i \in Ids}
    \cup {fmt_Sprintf(t, <<ValName[1]>>) : t \in Templates}

PatternLits == { <<"g">>, <<"x">>, <<"m">>, <<"2">>, <<"a">>, <<"%", "v">> }
\* a pattern is unanchored or anchored at both ends
Patterns == {[lit |-> l, bol |-> b, eol |-> b] : l \in PatternLits, b \in BOOLEAN}

\* p matches somewhere in s
Matches(p, s) ==
    \E i \in 1..(Len(s) - Len(p.lit) + 1) :
        /\ SubSeq(s, i, i + Len(p.lit) - 1) = p.lit
        /\ p.bol => i = 1
        /\ p.eol => i + Len(p.lit) - 1 = Len(s)

WrappedAugmented ==
    rev = "v2" /\ last.op = "Wrap" /\ last.src.kind = "xerr" /\ last.out = "ok"

\* C1: Wrap(E, t, as...) on an augmented error E returns an error whose
\* rendered message is the formatted t, ": " and E's message, whose chain is
\* t followed by E's chain and whose debug values are as followed by E's.
C1_WrapPrepends ==
    WrappedAugmented =>
        /\ O(last.res).text = safeSprintf(last.format, last.args) \o Sep \o last.pre.text
        /\ O(last.res).chain = <<last.format>> \o last.pre.chain
        /\ O(last.res).debug = last.args \o last.pre.debug

C1_Witness ==
    /\ WrappedAugmented
    /\ Len(O(last.res).chain) = 3
    /\ Len(last.args) = 2
    /\ Len(last.pre.debug) >= 1
    /\ O(last.res).text # strings_Join(O(last.res).chain, Sep)

\* C2: e.Is(t) is true exactly when the outermost entry of e's chain is t;
\* neither the rendered message nor an inner entry decides it.
C2_IsOutermost ==
    \A i \in Ids :
        LET chain == Chain(heap, errs[i]) IN
        \A t \in Probes :
            LET r == Is_m(heap, errs[i], t) IN
            /\ r.val <=> (Len(chain) > 0 /\ chain[1] = t)
            /\ Len(chain) > 0 => ~r.panic

C2_Witness ==
    \E i \in Ids :
        /\ Len(O(i).chain) >= 2
        /\ O(i).chain[2] # O(i).chain[1]
        /\ O(i).text # O(i).chain[1]
        /\ Is_m(heap, errs[i], O(i).chain[1]).val
        /\ ~Is_m(heap, errs[i], O(i).chain[2]).val
        /\ ~Is_m(heap, errs[i], O(i).text).val

\* C3: e.Contains(t) is true exactly when some entry of e's chain is t; a
\* string that is only the rendered form of a layer is not matched.
C3_ContainsChain ==
    \A i \in Ids :
        LET chain == Chain(heap, errs[i]) IN
        \A t \in Probes :
            LET r == Contains_m(heap, errs[i], t) IN
            /\ r.val <=> (\E k \in 1..Len(chain) : chain[k] = t)
            /\ ~r.panic

C3_Witness ==
    \E i \in Ids :
        /\ Len(O(i).chain) >= 2
        /\ O(i).chain[2] # O(i).chain[1]
        /\ Contains_m(heap, errs[i], O(i).chain[2]).val
        /\ ~Contains_m(heap, errs[i], O(i).text).val
        /\ ~Contains_m(heap, errs[i], fmt_Sprintf(O(i).chain[1], <<ValName[1]>>)).val
        /\ fmt_Sprintf(O(i).chain[1], <<ValName[1]>>) # O(i).chain[1]

\* C4: IsPattern(e, p) is true exactly when p matches the outermost entry of
\* e's chain, ContainsPattern(e, p) exactly when p matches some entry; the
\* rendered message is never what is matched.
C4_PatternsOnChain ==
    \A i \in Ids :
        LET chain == Chain(heap, errs[i]) IN
        \A p \in Patterns :
            /\ IsPattern_m(heap, errs[i], p).val
                  <=> (Len(chain) > 0 /\ Matches(p, chain[1]))
            /\ ContainsPattern_m(heap, errs[i], p).val
                  <=> (\E k \in 1..Len(chain) : Matches(p, chain[k]))

C4_Witness ==
    \E i \in Ids, p \in Patterns, q \in Patterns :
        /\ Len(O(i).chain) >= 2
        /\ Matches(p, O(i).text)
        /\ ~ContainsPattern_m(heap, errs[i], p).val
        /\ ContainsPattern_m(heap, errs[i], q).val
        /\ ~IsPattern_m(heap, errs[i], q).val

\* C5: on a non-nil error the package-level Is, IsPattern, Contains and
\* ContainsPattern return what the method returns for an augmented error, and
\* for a plain error the comparison or match against its text alone, so that
\* Is and Contains agree on a plain error.
C5_TopLevel ==
    /\ \A i \in Ids, t \in Probes :
          /\ Is(heap, Deref(XErr(i)), t) = Is_m(heap, errs[i], t)
          /\ Contains(heap, Deref(XErr(i)), t) = Contains_m(heap, errs[i], t)
    /\ \A i \in Ids, p \in Patterns :
          /\ IsPattern(heap, Deref(XErr(i)), p) = IsPattern_m(heap, errs[i], p)
          /\ ContainsPattern(heap, Deref(XErr(i)), p) = ContainsPattern_m(heap, errs[i], p)
    /\ \A s \in NativeTexts, t \in Probes :
          /\ Is(heap, Native(s), t) = Ret(s = t)
          /\ Contains(heap, Native(s), t) = Is(heap, Native(s), t)
    /\ \A s \in NativeTexts, p \in Patterns :
          /\ IsPattern(heap, Native(s), p) = Ret(Matches(p, s))
          /\ ContainsPattern(heap, Native(s), p) = Ret(Matches(p, s))

C5_Witness ==
    \E i \in Ids :
        /\ Len(O(i).chain) >= 2
        /\ O(i).text # O(i).chain[1]
        /\ Is(heap, Deref(XErr(i)), O(i).chain[1]).val
        /\ ~Is(heap, Deref(XErr(i)), O(i).chain[2]).val
        /\ Contains(heap, Deref(XErr(i)), O(i).chain[2]).val
        /\ \E s \in NativeTexts : Is(heap, Native(s), s).val

DerivingOps == {"Wrap", "WrapWith", "WithMessages", "WithDebug", "Copy", "Clone"}

\* C6: no wrapping or deriving call changes the augmented error it is
\* applied to: chain, debug values, stack and rendered message of that error
\* are after the call what they were before it.
C6_NoMutation ==
    (last.op \in DerivingOps /\ last.src.kind = "xerr") =>
        Obs(heap, errs[last.src.id]) = last.pre

\* C7: the stack of every error is the stack captured when the innermost
\* error of its chain was created, and stacks are captured only by New and
\* by wrapping a plain error.
C7_StackOnce ==
    /\ \A i \in Ids : O(i).stack = origin[i].stack
    /\ captures = Cardinality({i \in Ids : origin[i].root})

C7_Witness ==
    /\ Len(errs) = 2
    /\ last.op \in DerivingOps /\ last.src = XErr(1) /\ last.res = 2
    /\ origin[1].root /\ ~origin[2].root
    /\ O(2).stack = O(1).stack
    /\ O(2).chain # O(1).chain
    /\ captures = 1

(***************************************************************************)
(* Format strings as package fmt reads them: "%%" is an escaped pair, "%"  *)
(* and a further character a verb that takes an argument, "%" at the end   *)
(* of the string a directive without verb.                                 *)
(***************************************************************************)
RECURSIVE Verbs(_, _)
Verbs(f, i) ==
    IF i >= Len(f) THEN 0
    ELSE IF f[i] # "%" THEN Verbs(f, i + 1)
    ELSE IF f[i + 1] = "%" THEN Verbs(f, i + 2)
    ELSE 1 + Verbs(f, i + 2)

RECURSIVE Escapes(_, _)
Escapes(f, i) ==
    IF i >= Len(f) THEN 0
    ELSE IF f[i] # "%" THEN Escapes(f, i + 1)
    ELSE IF f[i + 1] = "%" THEN 1 + Escapes(f, i + 2)
    ELSE Escapes(f, i + 2)

RECURSIVE Dangling(_, _)
Dangling(f, i) ==
    IF i > Len(f) THEN 0
    ELSE IF f[i] # "%" THEN Dangling(f, i + 1)
    ELSE IF i = Len(f) THEN 1
    ELSE Dangling(f, i + 2)

RECURSIVE StripEscapes(_, _)
StripEscapes(f, i) ==
    IF i > Len(f) THEN <<>>
    ELSE IF f[i] # "%" \/ i = Len(f) THEN <<f[i]>> \o StripEscapes(f, i + 1)
    ELSE IF f[i + 1] = "%" THEN StripEscapes(f, i + 2)
    ELSE <<f[i], f[i + 1]>> \o StripEscapes(f, i + 2)

IsVal(x) == x \in Vals
IsPercent(x) == x = "%"
NotPercent(x) == x # "%"
IsMissing(x) == x = Missing
IsExtra(x) == x = ExtraOpen

ValueTokens(text) == SelectSeq(text, IsVal)

\* the text of the wrapped error, and the text the last call put before it
InnerText == IF last.src.kind = "xerr" THEN last.pre.text
             ELSE IF last.src.kind = "native" THEN fmt_Sprintf(last.src.text, <<>>)
             ELSE <<>>

Layer == IF last.op = "New" THEN O(last.res).text
         ELSE SubSeq(O(last.res).text, 1, Len(O(last.res).text) - Len(Sep) - Len(InnerText))

Formatted == rev = "v2" /\ last.op \in {"New", "Wrap"} /\ last.out = "ok"

\* C8: when more arguments are given than the format has placeholders, only
\* the first P arguments reach the formatter and the rendered text, and the
\* debug values of the call are all the arguments in their order.
C8_OnlyFirstP ==
    (Formatted /\ Len(last.args) > Verbs(last.format, 1)) =>
        /\ passedArgs(last.format, last.args) = SubSeq(last.args, 1, Verbs(last.format, 1))
        /\ ValueTokens(Layer) = SubSeq(last.args, 1, Verbs(last.format, 1))
        /\ O(last.res).debug = last.args \o last.pre.debug

\* C9: when fewer arguments are given than the format has placeholders, New
\* does not panic; the text shows the given arguments and the missing-argument
\* marker for each placeholder left, and the debug values are exactly the
\* arguments, an empty and non-nil sequence when there are none.
C9_TooFewArgs ==
    (rev = "v2" /\ last.op = "New" /\ Len(last.args) < Verbs(last.format, 1)) =>
        /\ last.out = "ok"
        /\ ValueTokens(O(last.res).text) = last.args
        /\ Len(SelectSeq(O(last.res).text, IsMissing)) = Verbs(last.format, 1) - Len(last.args)
        /\ Len(SelectSeq(O(last.res).text, IsExtra)) = 0
        /\ O(last.res).debug = last.args
        /\ ~O(last.res).debugNil

C9_Witness ==
    /\ rev = "v2" /\ last.op = "New" /\ last.out = "ok"
    /\ Verbs(last.format, 1) = 1 /\ Len(last.args) = 0
    /\ Escapes(last.format, 1) = 1
    /\ Len(SelectSeq(O(last.res).text, IsMissing)) = 1

\* C10: an escaped "%%" renders as one "%" and takes no argument; the count
\* that truncates the arguments, the "%" characters minus twice the "%%"
\* pairs, is the number of "%" that belong to no escaped pair, is never
\* negative, and the truncation never panics.
C10_EscapedPercent ==
    (rev = "v2" /\ last.op \in {"New", "Wrap"} /\ last.src.kind # "nil") =>
        /\ last.out = "ok"
        /\ placeholders(last.format) = Verbs(last.format, 1) + Dangling(last.format, 1)
        /\ placeholders(last.format) >= 0
        /\ Len(SelectSeq(Layer, IsPercent)) = Escapes(last.format, 1)
        /\ SelectSeq(Layer, NotPercent) = safeSprintf(StripEscapes(last.format, 1), last.args)

C10_Witness ==
    /\ Formatted
    /\ Escapes(last.format, 1) = 1 /\ Verbs(last.format, 1) = 1
    /\ Len(last.args) = 2
    /\ ValueTokens(Layer) = <<last.args[1]>>

(***************************************************************************)
(* Copies and the caller's writes (SpecCaller).                            *)
(***************************************************************************)
CallerOps == {"Write", "Append"}
SliceFields == IF rev = "v1" THEN {"messages", "debug", "stack"} ELSE {"fmts", "dbg", "stack"}

\* one of i and j is a copy taken of the other
CopyPair(i, j) == origin[j].copyOf = i \/ origin[i].copyOf = j

\* C11: Copy (Clone) returns a distinct error that reports the chain, debug
\* values, stack and message of the error copied and shares no storage with
\* it; a write of the caller into, or an append to, a slice obtained from one
\* of the two never changes what the other reports.
C11_CopyIndependent ==
    /\ last.op \in CopyOps =>
          /\ last.out = "ok"
          /\ last.res # last.src.id
          /\ O(last.res).text = last.pre.text
          /\ O(last.res).chain = last.pre.chain
          /\ O(last.res).debug = last.pre.debug
          /\ O(last.res).stack = last.pre.stack
          /\ \A fld \in SliceFields :
                \/ errs[last.res][fld].arr # errs[last.src.id][fld].arr
                \/ Cap(heap, errs[last.res][fld]) = 0
    /\ last.op \in CallerOps =>
          \A i \in Ids : CopyPair(i, last.src.id) => O(i) = snap[i]

C11_Witness ==
    /\ last.op = "Write"
    /\ \E i \in Ids :
          /\ origin[last.src.id].copyOf = i
          /\ Len(O(i).debug) >= 1
          /\ O(last.src.id) # snap[last.src.id]
          /\ O(last.src.id).debug # O(i).debug
          /\ O(i) = snap[i]

\* C12: every error a call returned has a non-empty chain, so Is and
\* IsPattern, which read entry 0 of the chain, never index out of range.
C12_ChainNonEmpty ==
    \A i \in Ids :
        /\ Len(O(i).chain) > 0
        /\ \A t \in Probes : ~Is_m(heap, errs[i], t).panic
        /\ \A p \in Patterns : ~IsPattern_m(heap, errs[i], p).panic

\* C13: Debug() of every error a call returned is a valid, possibly empty
\* slice, never nil, also when the call was given no debug values.
C13_DebugNeverNil ==
    \A i \in Ids : ~O(i).debugNil

(***************************************************************************)
(* The rendered message and its layers.                                    *)
(***************************************************************************)
\* the rendered message of the error a call wraps
SrcText == IF last.src.kind = "xerr" THEN last.pre.text
           ELSE IF last.src.kind = "native" THEN last.src.text
           ELSE <<>>

\* C14: Error() is the rendered forms of the layers joined with ": ", the
\* outermost first and the rendered message of the innermost error last; in
\* the message-list revision it is the messages joined with ": ".
C14_JoinedLayers ==
    /\ rev = "v1" => \A i \in Ids : O(i).text = strings_Join(O(i).chain, Sep)
    /\ (rev = "v2" /\ last.op = "New" /\ last.out = "ok") =>
          O(last.res).text = safeSprintf(last.format, last.args)
    /\ (rev = "v2" /\ last.op = "Wrap" /\ last.out = "ok") =>
          O(last.res).text = safeSprintf(last.format, last.args) \o Sep \o SrcText

Drop(s, n) == SubSeq(s, n + 1, Len(s))
Min(a, b) == IF a < b THEN a ELSE b
Max(a, b) == IF a < b THEN b ELSE a

\* the formatting run again over the stored formats and the flat debug
\* values: each format takes the values of its placeholders from the front
\* of the values the formats before it left
RECURSIVE Rerender(_, _)
Rerender(fmts, dbg) ==
    IF Len(fmts) = 0 THEN <<>>
    ELSE safeSprintf(fmts[1], dbg)
         \o (IF Len(fmts) = 1 THEN <<>>
             ELSE Sep \o Rerender(Tail(fmts), Drop(dbg, Min(Len(dbg), Max(placeholders(fmts[1]), 0)))))

\* C15: the cached message of an error built by New and Wrap calls is what
\* formatting the stored formats over the stored debug values gives, each
\* format consuming its positional slice of the values.
C15_RoundTrip ==
    (/\ rev = "v2" /\ last.op \in {"New", "Wrap"} /\ last.out = "ok"
     /\ \A k \in 1..Len(O(last.res).chain) : O(last.res).chain[k] \in Templates) =>
        O(last.res).text = Rerender(O(last.res).chain, O(last.res).debug)

\* C16: wrapping a plain error with text s gives an error whose innermost
\* chain entry is s, so that Contains(result, s) is true (and Is(result, s)
\* when no template is given), and whose rendered message ends with s as it
\* is: s for Wrap(err), the formatted template, ": " and s otherwise.
C16_NativeLiteral ==
    (last.op \in {"Wrap", "WrapWith"} /\ last.src.kind = "native" /\ last.out = "ok") =>
        LET e == Deref(XErr(last.res))
            s == last.src.text
            n == Len(O(last.res).chain)
        IN /\ n > 0 /\ O(last.res).chain[n] = s
           /\ Contains(heap, e, s).val
           /\ (rev = "v1" /\ last.op = "Wrap") => (Is(heap, e, s).val /\ O(last.res).text = s)
           /\ last.op = "WrapWith" => O(last.res).text = last.msgs[1] \o Sep \o s
           /\ rev = "v2" => O(last.res).text = safeSprintf(last.format, last.args) \o Sep \o s

(***************************************************************************)
(* A nil error.                                                            *)
(***************************************************************************)
WrapOps == {"Wrap", "WrapWith"}

\* C17: Wrap(nil), the wrap without a template, returns nil, captures no
\* stack and creates no error value.
C17_WrapNilIsNil ==
    [][(rev = "v1" /\ last'.op = "Wrap" /\ last'.src.kind = "nil") =>
          /\ last'.out = "nil"
          /\ last'.res = 0
          /\ errs' = errs
          /\ captures' = captures
          /\ heap' = heap]_vars

C17_Witness ==
    /\ rev = "v1" /\ last.op = "Wrap" /\ last.src.kind = "nil"
    /\ last.out = "nil"
    /\ Len(errs) >= 1
    /\ captures >= 1

\* C18: wrapping a nil error together with a template or message, that is
\* Wrap(nil, format, args...) and WrapWith(nil, message, debug...), panics
\* and returns no error value, whatever the template and the arguments.
C18_WrapNilPanics ==
    (last.op \in WrapOps /\ last.src.kind = "nil" /\ ~(rev = "v1" /\ last.op = "Wrap")) =>
        /\ last.out = "panic"
        /\ last.res = 0
        /\ Len(errs) = Len(snap)

C18_Witness ==
    /\ last.op \in WrapOps /\ last.src.kind = "nil"
    /\ last.out = "panic"
    /\ Len(last.args) >= 1
    /\ Len(errs) >= 1

\* how each wrapping entry point of the revision reacts to a nil error
NilReactions ==
    IF rev = "v1"
    THEN { IF WrapV1(heap, NilErr, captures + 1).nil THEN "nil" ELSE "ok",
           IF WrapWith(heap, NilErr, LitMsg, NilSlice, captures + 1).panic THEN "panic" ELSE "ok" }
    ELSE { IF WrapV2(heap, NilErr, <<"f">>, NilSlice, captures + 1).panic THEN "panic" ELSE "ok" }

\* C19: all wrapping entry points react to a nil error in the same way: when
\* one of them was called on nil, what it did is what each of them does.
C19_OneNilPolicy ==
    (last.op \in WrapOps /\ last.src.kind = "nil") => NilReactions = {last.out}

QueryOps == {"Is", "Contains"}

\* C20: the package-level Is and Contains tolerate a nil error: Is(nil, msg)
\* and Contains(nil, msg) return false and do not panic, for every msg.
C20_NilTolerated ==
    (last.op \in QueryOps /\ last.src.kind = "nil") => last.out = "false"

(***************************************************************************)
(* Wrap without a template, WithMessages, WithDebug and WrapWith (v1).     *)
(***************************************************************************)
\* C21: Wrap(err), the wrap without a template, returns an augmented error
\* it is given as it is: the same value with its messages, debug values and
\* stack, no value created and no stack captured; so wrapping what Wrap
\* returned gives that value again.
C21_WrapIdempotent ==
    [][/\ (rev = "v1" /\ last'.op = "Wrap" /\ last'.src.kind = "xerr") =>
             /\ last'.out = "ok"
             /\ last'.res = last'.src.id
             /\ errs' = errs
             /\ heap' = heap
             /\ captures' = captures
             /\ Obs(heap', errs'[last'.res]) = last'.pre
       /\ (rev = "v1" /\ last'.op = "Wrap" /\ last'.out = "ok") =>
             LET again == WrapV1(heap', [kind |-> "xerr", id |-> last'.res, e |-> errs'[last'.res]],
                                 captures' + 1)
             IN /\ again.same /\ ~again.nil /\ ~again.panic
                /\ again.e = errs'[last'.res]
                /\ again.h = heap'
                /\ again.cap = 0]_vars

C21_Witness ==
    /\ rev = "v1" /\ last.op = "Wrap" /\ last.src.kind = "xerr" /\ last.out = "ok"
    /\ last.res = last.src.id
    /\ Len(O(last.res).chain) >= 2
    /\ O(last.res) = last.pre

\* C22: e.WithMessages(m1..mk) returns a new error whose chain is m1..mk
\* followed by the chain of e and whose debug values and stack are those of
\* e; e.WithDebug(d1..dk) returns a new error whose debug values are d1..dk
\* followed by those of e and whose messages, text and stack are those of e.
C22_WithPrepends ==
    /\ (rev = "v1" /\ last.op = "WithMessages") =>
          /\ last.out = "ok"
          /\ last.res = Len(errs) /\ last.res # last.src.id
          /\ O(last.res).chain = last.msgs \o last.pre.chain
          /\ O(last.res).debug = last.pre.debug
          /\ O(last.res).stack = last.pre.stack
    /\ (rev = "v1" /\ last.op = "WithDebug") =>
          /\ last.out = "ok"
          /\ last.res = Len(errs) /\ last.res # last.src.id
          /\ O(last.res).debug = last.args \o last.pre.debug
          /\ O(last.res).chain = last.pre.chain
          /\ O(last.res).text = last.pre.text
          /\ O(last.res).stack = last.pre.stack

C22_Witness ==
    /\ rev = "v1" /\ last.op = "WithMessages" /\ last.out = "ok"
    /\ Len(last.msgs) = 2
    /\ Len(last.pre.chain) >= 2
    /\ last.msgs[1] # last.msgs[2]
    /\ O(last.res).chain[1] = last.msgs[1]
    /\ O(last.res).chain[3] = last.pre.chain[1]

\* Wrap(err).WithMessages(message).WithDebug(debug...), the chain of calls
\* WrapWith is documented to be equivalent to
Composed(h, err, message, debug, k) ==
    LET w == WrapV1(h, err, k)
        ml == Alloc(w.h, <<message>>)
        m == WithMessages(ml.h, w.e, ml.s)
        d == WithDebug(m.h, m.e, debug)
    IN IF err.kind = "nil" THEN PanickedV1(h)
       ELSE [h |-> d.h, e |-> d.e, cap |-> w.cap, panic |-> FALSE]

\* the choices of debug arguments that read as the given values
ArgsReading(h, vals) == {c \in ArgChoices : Read(MkArgs(h, c, DbgBuf).h, MkArgs(h, c, DbgBuf).s) = vals}

\* C23: WrapWith(err, message, debug...) yields an error with the messages,
\* the debug values (nil or not, and element by element) and the inherited
\* or once-captured stack of Wrap(err).WithMessages(message).WithDebug(debug...),
\* for native and augmented err and for every list of debug arguments, the
\* empty one included.
C23_WrapWithComposed ==
    [][(rev = "v1" /\ last'.op = "WrapWith" /\ last'.out = "ok") =>
          \A c \in ArgsReading(heap, last'.args) :
             LET a == MkArgs(heap, c, DbgBuf)
                 err == IF last'.src.kind = "xerr"
                        THEN [kind |-> "xerr", id |-> last'.src.id, e |-> errs[last'.src.id]]
                        ELSE last'.src
                 y == Composed(a.h, err, last'.msgs[1], a.s, captures + 1)
                 got == Obs(heap', errs'[last'.res])
                 want == Obs(y.h, y.e)
             IN /\ ~y.panic
                /\ got.chain = want.chain
                /\ got.text = want.text
                /\ got.debug = want.debug
                /\ got.debugNil = want.debugNil
                /\ got.stack = want.stack
                /\ y.cap = captures' - captures]_vars

\* the same comparison for the calls that pass debug values
C23_WithValues ==
    [][(rev = "v1" /\ last'.op = "WrapWith" /\ last'.out = "ok" /\ Len(last'.args) > 0) =>
          \A c \in ArgsReading(heap, last'.args) :
             LET a == MkArgs(heap, c, DbgBuf)
                 err == IF last'.src.kind = "xerr"
                        THEN [kind |-> "xerr", id |-> last'.src.id, e |-> errs[last'.src.id]]
                        ELSE last'.src
                 y == Composed(a.h, err, last'.msgs[1], a.s, captures + 1)
                 got == Obs(heap', errs'[last'.res])
                 want == Obs(y.h, y.e)
             IN /\ ~y.panic
                /\ got = want
                /\ y.cap = captures' - captures]_vars

(***************************************************************************)
(* Immutability: the caller's storage, the slices the accessors return.    *)
(***************************************************************************)
ProducingOps == {"New", "Wrap", "WrapWith", "WithMessages", "WithDebug"}

\* error i reports the messages and debug values it reported before the step
SameValues(i) == O(i).chain = snap[i].chain /\ O(i).debug = snap[i].debug

\* a later write of the caller into the slice it passed to a call
C24_LaterWrite == last.op = "BufWrite" => \A i \in Ids : SameValues(i)

\* a second producing call that is given the same slice
C24_SecondCall ==
    (last.op \in ProducingOps /\ last.out = "ok") => \A i \in 1..Len(snap) : SameValues(i)

\* C24: no producing call keeps the caller's slice in the error it returns:
\* neither a later write of the caller into the slice it passed, nor a
\* second producing call given the same slice, changes the messages or the
\* debug values an error returned earlier reports.
C24_NoCallerAlias == C24_LaterWrite /\ C24_SecondCall

\* C25: a write of the caller into a slice that e.Messages(), e.Debug() or
\* e.Stack() returned does not change the messages, debug values, stack or
\* text that e reports.
C25_AccessorsImmutable ==
    last.op = "Write" => O(last.src.id) = snap[last.src.id]
(***************************************************************************)
(* Sharing an error between goroutines (SpecThreads).                      *)
(***************************************************************************)
\* what goroutine t gets when it makes its call alone, right after the
\* error was handed over
Alone(t) ==
    LET r == ThreadCall(thr.h0, errs[Shared], thr.run[t].op, thr.run[t].c)
    IN IF thr.run[t].op \in ThreadReads THEN Obs(thr.h0, errs[Shared]) ELSE Obs(r.h, r.e)

\* what goroutine t got
Got(t) ==
    IF thr.run[t].op \in ThreadReads THEN thr.run[t].seen ELSE Obs(heap, thr.run[t].n[1])

\* C26: an error is shared by goroutines that each derive an error from it
\* (Wrap, WrapWith, Copy, WithMessages, WithDebug) or read it: in every
\* interleaving the shared error reports what it reported when it was handed
\* over, and every goroutine that is done has the result it gets alone.
C26_SharedUnchanged ==
    thr.h0 # <<>> =>
        /\ Obs(heap, errs[Shared]) = Obs(thr.h0, errs[Shared])
        /\ \A t \in Threads : thr.run[t].pc = "done" => Got(t) = Alone(t)

\* the same for an error that holds no storage of a caller
C26_OwnStorage ==
    (thr.h0 # <<>> /\ \A fld \in SliceFields : errs[Shared][fld].arr \notin {DbgBuf, StrBuf}) =>
        /\ Obs(heap, errs[Shared]) = Obs(thr.h0, errs[Shared])
        /\ \A t \in Threads : thr.run[t].pc = "done" => Got(t) = Alone(t)

(***************************************************************************)
(* Classification along a line of derived errors.                          *)
(***************************************************************************)
RECURSIVE Ancestors(_)
\* the errors w was derived from, by any number of calls
Ancestors(w) ==
    IF origin[w].parent = 0 THEN {}
    ELSE {origin[w].parent} \cup Ancestors(origin[w].parent)

IsSuffix(s, t) == Len(s) <= Len(t) /\ SubSeq(t, Len(t) - Len(s) + 1, Len(t)) = s

\* the templates the last call put in front of the chain
Added ==
    IF rev = "v2" /\ last.op = "Wrap" THEN <<last.format>>
    ELSE IF last.op \in {"WrapWith", "WithMessages"} THEN last.msgs
    ELSE <<>>

\* every template e has, or had when w was derived from it, is found in w
C27_ContainsKept ==
    \A w \in Ids :
        /\ \A k \in 1..Len(origin[w].had) :
              Contains_m(heap, errs[w], origin[w].had[k]).val
        /\ \A e \in Ancestors(w) : \A t \in Probes :
              Contains_m(heap, errs[e], t).val => Contains_m(heap, errs[w], t).val

\* the chain of e ends the chain of every error derived from e
C27_SuffixKept == \A w \in Ids : \A e \in Ancestors(w) : IsSuffix(O(e).chain, O(w).chain)

\* Is answers for the first template of the last call that added templates
C27_IsNewest ==
    (last.op \in DerivingOps /\ last.out = "ok" /\ last.res # 0) =>
        \A t \in Probes :
            Is_m(heap, errs[last.res], t).val <=>
                IF Len(Added) > 0 THEN t = Added[1]
                ELSE IF last.src.kind = "native" THEN t = last.src.text
                ELSE Len(last.pre.chain) > 0 /\ t = last.pre.chain[1]

\* C27: wrapping preserves Contains and Is follows the newest layer: an error
\* w derived from e by Wrap, WrapWith, WithMessages, WithDebug and Copy calls
\* contains every template e contains, the chain of e being a suffix of the
\* chain of w, and after a call that adds templates w.Is(x) holds exactly
\* for the first template added.
C27_WrapKeepsClass == C27_ContainsKept /\ C27_SuffixKept /\ C27_IsNewest

====
